---- MODULE Spec2Model ----
(***************************************************************************)
(* Swap-request workflow of the nurse scheduling front end:                *)
(*   - the compatibility engine of CreateSwapRequest.tsx                   *)
(*     (calculateCompatibility, getCompatibilityReasons,                   *)
(*     generateSuggestions),                                               *)
(*   - the form of CreateSwapRequest.tsx (schema, selectSuggestion,        *)
(*     onSubmit),                                                          *)
(*   - the parts of the nurse store and the schedule store it reads and    *)
(*     writes, the API client and the notification store,                  *)
(*   - the decisions of SwapRequestList.tsx,                               *)
(*   - the drag-and-drop and the conflicts of ScheduleEditor,              *)
(*   - fetchNurses of the nurse store.                                     *)
(* Arrays are sequences, strings are strings, a Date is a number of hours. *)
(***************************************************************************)
EXTENDS Integers, Sequences, FiniteSets, TLC

VARIABLES
    nurses,             \* nurseStore.nurses
    shifts,             \* scheduleStore.shifts
    swapRequests,       \* scheduleStore.swapRequests
    loadingState,       \* scheduleStore.loadingState
    pending,            \* store operations awaiting the API's answer
    nurseId,            \* prop of CreateSwapRequest: the requester
    shiftId,            \* prop of CreateSwapRequest: the source shift
    suggestions,        \* useState of CreateSwapRequest
    selectedSuggestion, \* useState of CreateSwapRequest
    form,               \* useForm values: targetNurseId, reason, targetShiftId
    errors,             \* useForm formState.errors after the last handleSubmit
    closed,             \* onSuccess has been called
    targetChosenBy,     \* history: what set form.targetNurseId last
    notifications,      \* notificationStore.notifications
    selectedRequest,    \* useState of SwapRequestList
    conflicts,          \* useState of ScheduleEditor
    nursesLoading,      \* nurseStore.loadingState
    scored              \* one application of calculateCompatibility and of
                        \* getCompatibilityReasons

vars == <<nurses, shifts, swapRequests, loadingState, pending, nurseId,
          shiftId, suggestions, selectedSuggestion, form, errors, closed,
          targetChosenBy, notifications, selectedRequest, conflicts,
          nursesLoading, scored>>

----------------------------------------------------------------------------
(* Bounds of the model *)

MaxSpecs == 7        \* longest specialization list drawn as an input
MaxPool == 7         \* nurses in a drawn nurse pool
MaxReasonLen == 10   \* longest reason text typed into the form
MaxPending == 1      \* store operations in flight at the same time
MaxNotifications == 1   \* notifications on display when a handler adds its own

----------------------------------------------------------------------------
(* JavaScript array and number helpers *)

\* null and undefined where an object is expected
Null == [null |-> TRUE]
Undefined == [undefined |-> TRUE]

Min(a, b) == IF a < b THEN a ELSE b
Max(a, b) == IF a > b THEN a ELSE b
Abs(a) == IF a < 0 THEN -a ELSE a

Range(seq) == {seq[i] : i \in DOMAIN seq}

\* Array.prototype.includes
includes(seq, x) == \E i \in DOMAIN seq : seq[i] = x

\* Array.prototype.indexOf: zero-based index of the first occurrence, or -1
indexOf(seq, x) ==
    IF includes(seq, x)
    THEN (CHOOSE i \in DOMAIN seq :
              seq[i] = x /\ \A j \in 1..(i - 1) : seq[j] # x) - 1
    ELSE -1

\* Array.prototype.slice(start, end) for 0 <= start <= end
slice(seq, start, end) == SubSeq(seq, start + 1, Min(end, Len(seq)))

\* The first element of an array, undefined if it is empty
first(seq) == IF Len(seq) > 0 THEN seq[1] ELSE Undefined

\* Array.prototype.join of an array of strings
RECURSIVE join(_, _)
join(seq, sep) ==
    IF seq = <<>> THEN ""
    ELSE IF Len(seq) = 1 THEN seq[1]
    ELSE seq[1] \o sep \o join(Tail(seq), sep)

\* date-fns isSameDay on dates counted in hours
isSameDay(d1, d2) == (d1 \div 24) = (d2 \div 24)

----------------------------------------------------------------------------
(* Compatibility engine: CreateSwapRequest.tsx *)

experienceLevelsFive == <<"Trainee", "Junior", "Mid", "Senior", "Expert">>

experienceLevels == <<"Junior", "Mid", "Senior", "Expert">>

\* nurse1.specializations.filter(spec => nurse2.specializations.includes(spec))
commonSpecs(nurse1, nurse2) ==
    SelectSeq(nurse1.specializations,
              LAMBDA spec : includes(nurse2.specializations, spec))

\* The specialization-overlap term: commonSpecs.length * 5
overlapPoints(nurse1, nurse2) == Len(commonSpecs(nurse1, nurse2)) * 5

\* The sum of the four terms before Math.min
rawScore(nurse1, nurse2, shift) ==
    LET exp1 == indexOf(experienceLevels, nurse1.experienceLevel)
        exp2 == indexOf(experienceLevels, nurse2.experienceLevel)
    IN    (IF nurse1.department = nurse2.department THEN 30 ELSE 0)
        + (IF includes(nurse2.preferredShifts, shift.type) THEN 25 ELSE 0)
        + Max(0, 20 - Abs(exp1 - exp2) * 5)
        + overlapPoints(nurse1, nurse2)

calculateCompatibilityNoCap(nurse1, nurse2, shift) ==
    rawScore(nurse1, nurse2, shift)

calculateCompatibility(nurse1, nurse2, shift) ==
    Min(100, rawScore(nurse1, nurse2, shift))

getCompatibilityReasonsOwnPreference(nurse1, nurse2, shift) ==
    LET common == commonSpecs(nurse1, nurse2)
    IN    (IF nurse1.department = nurse2.department
           THEN <<"Same department">> ELSE <<>>)
       \o (IF includes(nurse1.preferredShifts, shift.type)
           THEN <<"Prefers this shift type">> ELSE <<>>)
       \o (IF Len(common) > 0
           THEN <<"Shared specializations: " \o join(common, ", ")>>
           ELSE <<>>)

getCompatibilityReasons(nurse1, nurse2, shift) ==
    LET common == commonSpecs(nurse1, nurse2)
    IN    (IF nurse1.department = nurse2.department
           THEN <<"Same department">> ELSE <<>>)
       \o (IF includes(nurse2.preferredShifts, shift.type)
           THEN <<"Prefers this shift type">> ELSE <<>>)
       \o (IF Len(common) > 0
           THEN <<"Shared specializations: " \o join(common, ", ")>>
           ELSE <<>>)

eligibleNursesAnyDepartment(ns, nid, currentNurse, currentShift) ==
    SelectSeq(ns, LAMBDA nurse :
        /\ nurse.id # nid
        /\ includes(nurse.preferredShifts, currentShift.type))

\* nurses.filter(...) of generateSuggestions
eligibleNurses(ns, nid, currentNurse, currentShift) ==
    SelectSeq(ns, LAMBDA nurse :
        /\ nurse.id # nid
        /\ nurse.department = currentNurse.department
        /\ includes(nurse.preferredShifts, currentShift.type))

nurseShiftsAnyDay(ss, nurse, currentNurse, currentShift) ==
    SelectSeq(ss, LAMBDA shift :
        /\ includes(shift.assignedNurses, nurse.id)
        /\ includes(currentNurse.preferredShifts, shift.type))

\* shifts.filter(...) of generateSuggestions, for one eligible nurse
nurseShifts(ss, nurse, currentNurse, currentShift) ==
    SelectSeq(ss, LAMBDA shift :
        /\ includes(shift.assignedNurses, nurse.id)
        /\ ~isSameDay(shift.date, currentShift.date)
        /\ includes(currentNurse.preferredShifts, shift.type))

\* The callback of eligibleNurses.map
toSuggestion(ss, nurse, currentNurse, currentShift) ==
    LET mine == nurseShifts(ss, nurse, currentNurse, currentShift)
    IN  [nurse |-> nurse,
         shift |-> first(mine),
         compatibility |->
             calculateCompatibility(currentNurse, nurse, currentShift),
         reasons |->
             getCompatibilityReasons(currentNurse, nurse, currentShift)]

\* One step of a stable sort under (a, b) => b.compatibility - a.compatibility:
\* x goes behind every element the comparator does not put after it.
insertTiesFirst(sorted, x) ==
    LET before == SelectSeq(sorted,
                      LAMBDA a : a.compatibility > x.compatibility)
        after == SelectSeq(sorted,
                      LAMBDA a : a.compatibility <= x.compatibility)
    IN  before \o <<x>> \o after

insertSorted(sorted, x) ==
    LET before == SelectSeq(sorted,
                      LAMBDA a : a.compatibility >= x.compatibility)
        after == SelectSeq(sorted,
                      LAMBDA a : a.compatibility < x.compatibility)
    IN  before \o <<x>> \o after

RECURSIVE sortStable(_)
sortStable(seq) ==
    IF seq = <<>> THEN <<>>
    ELSE insertSorted(sortStable(SubSeq(seq, 1, Len(seq) - 1)), seq[Len(seq)])

sortNothing(seq) == seq

sortAscending(seq) ==
    LET sorted == sortStable(seq)
    IN  [i \in 1..Len(sorted) |-> sorted[Len(sorted) + 1 - i]]

\* suggestions.sort((a, b) => b.compatibility - a.compatibility);
\* Array.prototype.sort is stable (ECMAScript 2019)
sortByCompatibility(seq) == sortStable(seq)

topAll(seq) == seq

top3(seq) == slice(seq, 0, 3)

\* suggestions.slice(0, 5)
top5(seq) == slice(seq, 0, 5)

generateSuggestions(ns, ss, nid, currentNurse, currentShift) ==
    LET eligible == eligibleNurses(ns, nid, currentNurse, currentShift)
        mapped == [i \in 1..Len(eligible) |->
                      toSuggestion(ss, eligible[i], currentNurse, currentShift)]
    IN  top5(sortByCompatibility(mapped))

\* shifts.find(s => s.id === shiftId), nurses.find(n => n.id === nurseId)
findShift(ss, sid) == first(SelectSeq(ss, LAMBDA s : s.id = sid))
findNurse(ns, nid) == first(SelectSeq(ns, LAMBDA n : n.id = nid))

\* The effect of CreateSwapRequest: the value of `suggestions` after it ran
\* for the given stores and props; `old` is the value before.
useEffectSuggestions(ns, ss, nid, sid, old) ==
    LET currentShift == findShift(ss, sid)
        currentNurse == findNurse(ns, nid)
    IN  IF currentShift = Undefined \/ currentNurse = Undefined
        THEN old
        ELSE generateSuggestions(ns, ss, nid, currentNurse, currentShift)

----------------------------------------------------------------------------
(* Inputs of the scoring specification *)

\* availableSpecializations of the nurse form, preceded by a repeated entry:
\* a CSV row of the bulk upload is split on commas and not deduplicated.
availableSpecializations ==
    <<"Critical Care", "Emergency", "Trauma", "Pediatric Care", "Neonatal",
      "Surgical Care", "Anesthesia", "Cardiology", "Neurology", "Oncology">>

SpecCanon == <<"Critical Care">> \o availableSpecializations

SpecLists ==
    {SubSeq(SpecCanon, i, j) : i \in 1..MaxSpecs, j \in 0..MaxSpecs}

ScoreNurse1 ==
    {[id |-> "1", department |-> "ICU", specializations |-> sp,
      experienceLevel |-> e, preferredShifts |-> <<"Day", "Evening">>] :
        sp \in SpecLists, e \in Range(experienceLevels)}

ScoreNurse2 ==
    {[id |-> "2", department |-> d, specializations |-> sp,
      experienceLevel |-> e, preferredShifts |-> p] :
        d \in {"ICU", "Emergency"}, sp \in SpecLists,
        e \in Range(experienceLevels), p \in {<<"Day">>, <<"Night">>}}

ScoreShift ==
    [id |-> "s1", date |-> 8, type |-> "Day", assignedNurses |-> <<"1">>]

NotScored == [called |-> FALSE, explained |-> FALSE]

----------------------------------------------------------------------------
(* Inputs of the suggestion specification *)

\* The requester of the drawn pools, first in the pool
Requester ==
    [id |-> "1", department |-> "ICU",
     specializations |-> <<"Critical Care", "Emergency">>,
     experienceLevel |-> "Senior", preferredShifts |-> <<"Day", "Evening">>]

\* What the other nurses of a drawn pool look like, id apart: scores 85, 75
\* and 75 against Requester and a Day shift, then a nurse of another
\* department and a nurse who does not prefer Day shifts.
Profiles ==
    {[department |-> "ICU",
      specializations |-> <<"Critical Care", "Emergency">>,
      experienceLevel |-> "Senior", preferredShifts |-> <<"Day">>],
     [department |-> "ICU", specializations |-> <<"Critical Care">>,
      experienceLevel |-> "Expert", preferredShifts |-> <<"Day", "Night">>],
     [department |-> "ICU", specializations |-> <<"Emergency">>,
      experienceLevel |-> "Mid", preferredShifts |-> <<"Evening", "Day">>],
     [department |-> "Emergency",
      specializations |-> <<"Critical Care", "Emergency">>,
      experienceLevel |-> "Senior", preferredShifts |-> <<"Day">>],
     [department |-> "ICU",
      specializations |-> <<"Critical Care", "Emergency">>,
      experienceLevel |-> "Senior", preferredShifts |-> <<"Night">>]}

withId(profile, i) ==
    [id |-> ToString(i), department |-> profile.department,
     specializations |-> profile.specializations,
     experienceLevel |-> profile.experienceLevel,
     preferredShifts |-> profile.preferredShifts]

\* Pools of MaxPool nurses with the ids "1", "2", ...
NursePools ==
    {[i \in 1..MaxPool |-> IF i = 1 THEN Requester ELSE withId(f[i], i)] :
        f \in [2..MaxPool -> Profiles]}

\* The source shift s1 of nurse 1, and shifts of nurses 2 and 3: one on the
\* day of s1, one of a type nurse 1 does not prefer, two that match.
ShiftPool ==
    <<[id |-> "s1", date |-> 8, type |-> "Day", assignedNurses |-> <<"1">>],
      [id |-> "s2", date |-> 16, type |-> "Evening",
       assignedNurses |-> <<"2", "3">>],
      [id |-> "s3", date |-> 56, type |-> "Night",
       assignedNurses |-> <<"2">>],
      [id |-> "s4", date |-> 32, type |-> "Day",
       assignedNurses |-> <<"2", "4">>],
      [id |-> "s5", date |-> 40, type |-> "Evening",
       assignedNurses |-> <<"2">>]>>

----------------------------------------------------------------------------
(* State of the form and of the schedule store when nothing has happened *)

NullStr == "null"   \* null where a string is expected

defaultValues == [targetNurseId |-> "", reason |-> "", targetShiftId |-> ""]

NotLoading == [isLoading |-> FALSE, error |-> NullStr]

IdleStore ==
    /\ swapRequests = <<>>
    /\ loadingState = NotLoading
    /\ pending = <<>>
    /\ notifications = <<>>

FreshForm ==
    /\ selectedSuggestion = Null
    /\ form = defaultValues
    /\ errors = {}
    /\ closed = FALSE
    /\ targetChosenBy = "default"

----------------------------------------------------------------------------
(* Scoring specification: calculateCompatibility applied to drawn inputs *)

InitScore ==
    /\ nurses = <<>>
    /\ shifts = <<>>
    /\ nurseId = "1"
    /\ shiftId = "s1"
    /\ suggestions = <<>>
    /\ IdleStore
    /\ FreshForm
    /\ \E n1 \in ScoreNurse1, n2 \in ScoreNurse2 :
           scored = [called |-> FALSE, explained |-> FALSE,
                     nurse1 |-> n1, nurse2 |-> n2, shift |-> ScoreShift,
                     score |-> 0, reasons |-> <<>>]
    /\ selectedRequest = Null
    /\ conflicts = <<>>
    /\ nursesLoading = NotLoading

CallCalculateCompatibility ==
    /\ ~scored.called
    /\ scored' = [scored EXCEPT
           !.called = TRUE,
           !.score = calculateCompatibility(scored.nurse1, scored.nurse2,
                                            scored.shift)]
    /\ UNCHANGED <<nurses, shifts, swapRequests, loadingState, pending,
                   nurseId, shiftId, suggestions, selectedSuggestion, form,
                   errors, closed>>
    /\ UNCHANGED targetChosenBy
    /\ UNCHANGED notifications
    /\ UNCHANGED selectedRequest
    /\ UNCHANGED <<conflicts, nursesLoading>>

CallGetCompatibilityReasons ==
    /\ ~scored.explained
    /\ scored' = [scored EXCEPT
           !.explained = TRUE,
           !.reasons = getCompatibilityReasons(scored.nurse1, scored.nurse2,
                                               scored.shift)]
    /\ UNCHANGED <<nurses, shifts, swapRequests, loadingState, pending,
                   nurseId, shiftId, suggestions, selectedSuggestion, form,
                   errors, closed, targetChosenBy, notifications>>
    /\ UNCHANGED selectedRequest
    /\ UNCHANGED <<conflicts, nursesLoading>>

NextScore == CallCalculateCompatibility \/ CallGetCompatibilityReasons

SpecScore == InitScore /\ [][NextScore]_vars

----------------------------------------------------------------------------
(* Suggestion specification: the effect of CreateSwapRequest on drawn pools *)

InitSuggest ==
    /\ nurses \in NursePools
    /\ shifts = ShiftPool
    /\ nurseId = "1"
    /\ shiftId = "s1"
    /\ suggestions = <<>>
    /\ IdleStore
    /\ FreshForm
    /\ scored = NotScored
    /\ selectedRequest = Null
    /\ conflicts = <<>>
    /\ nursesLoading = NotLoading

RunEffectFilteringPool ==
    /\ suggestions' =
           useEffectSuggestions(nurses, shifts, nurseId, shiftId, suggestions)
    /\ nurses' = eligibleNurses(nurses, nurseId, findNurse(nurses, nurseId),
                                findShift(shifts, shiftId))
    /\ UNCHANGED <<shifts, swapRequests, loadingState, pending, nurseId,
                   shiftId, selectedSuggestion, form, errors, closed, scored,
                   targetChosenBy, notifications, selectedRequest,
                   conflicts, nursesLoading>>

\* useEffect(() => { ... generateSuggestions(); }, [...]) after the first render
RunEffect ==
    /\ suggestions' =
           useEffectSuggestions(nurses, shifts, nurseId, shiftId, suggestions)
    /\ UNCHANGED <<nurses, shifts, swapRequests, loadingState, pending,
                   nurseId, shiftId, selectedSuggestion, form, errors,
                   closed, scored>>
    /\ UNCHANGED targetChosenBy
    /\ UNCHANGED notifications
    /\ UNCHANGED selectedRequest
    /\ UNCHANGED <<conflicts, nursesLoading>>

NextSuggest == RunEffect

SpecSuggest == InitSuggest /\ [][NextSuggest]_vars
----------------------------------------------------------------------------
(* Properties of the compatibility engine *)

currentNurse == findNurse(nurses, nurseId)
currentShift == findShift(shifts, shiftId)

\* Position of a nurse in the nurse pool
poolIndex(nurse) == CHOOSE k \in DOMAIN nurses : nurses[k].id = nurse.id

\* The nurses of the pool that pass the three eligibility conditions
EligibleSet ==
    {k \in DOMAIN nurses :
        /\ nurses[k].id # nurseId
        /\ nurses[k].department = currentNurse.department
        /\ currentShift.type \in Range(nurses[k].preferredShifts)}

\* C1: every suggested nurse differs from the requester, works in the
\* requester's department and prefers the type of the source shift.
C1_OnlyEligibleSuggested ==
    \A i \in DOMAIN suggestions :
        /\ suggestions[i].nurse.id # nurseId
        /\ suggestions[i].nurse.department = currentNurse.department
        /\ currentShift.type \in Range(suggestions[i].nurse.preferredShifts)

\* A suggestion list was produced from a pool that holds a nurse of another
\* department and a nurse who does not prefer the type of the source shift.
C1_Witness ==
    /\ suggestions # <<>>
    /\ \E k \in DOMAIN nurses :
           nurses[k].department # currentNurse.department
    /\ \E k \in DOMAIN nurses :
           /\ nurses[k].department = currentNurse.department
           /\ currentShift.type \notin Range(nurses[k].preferredShifts)

ord(level) ==
    CASE level = "Junior" -> 0
      [] level = "Mid" -> 1
      [] level = "Senior" -> 2
      [] level = "Expert" -> 3

\* C2: the score is min(100, D + P + E + S), S being 5 points for each
\* specialization string present in both nurses' specialization sets.
C2_ScoreIsSumOfTerms ==
    scored.called =>
        LET n1 == scored.nurse1
            n2 == scored.nurse2
            D == IF n1.department = n2.department THEN 30 ELSE 0
            P == IF scored.shift.type \in Range(n2.preferredShifts)
                 THEN 25 ELSE 0
            gap == Abs(ord(n1.experienceLevel) - ord(n2.experienceLevel))
            E == Max(0, 20 - 5 * gap)
            S == 5 * Cardinality(Range(n1.specializations)
                                 \cap Range(n2.specializations))
        IN  scored.score = Min(100, D + P + E + S)

\* C3: the compatibility score is an integer from 0 to 100.
C3_ScoreInRange == scored.called => scored.score \in 0..100

\* The four terms add up to more than 100 and the score returned is 100.
C3_Witness ==
    /\ scored.called
    /\ rawScore(scored.nurse1, scored.nurse2, scored.shift) > 100
    /\ scored.score = 100

\* C4: the suggestion list has at most 5 entries.
C4_AtMostFive == Len(suggestions) <= 5

\* More than 5 nurses are eligible and 5 are suggested.
C4_Witness == Cardinality(EligibleSet) > 5 /\ Len(suggestions) = 5

\* C5: scores do not increase along the suggestion list.
C5_SortedByScore ==
    \A i, j \in DOMAIN suggestions :
        i < j => suggestions[i].compatibility >= suggestions[j].compatibility

\* A nurse with a strictly higher score is suggested before a nurse that
\* precedes it in the pool.
C5_Witness ==
    \E i, j \in DOMAIN suggestions :
        /\ i < j
        /\ suggestions[i].compatibility > suggestions[j].compatibility
        /\ poolIndex(suggestions[i].nurse) > poolIndex(suggestions[j].nurse)

\* C6: suggestions with equal scores keep the order of the nurse pool.
C6_TiesKeepPoolOrder ==
    \A i, j \in DOMAIN suggestions :
        (i < j /\ suggestions[i].compatibility = suggestions[j].compatibility)
            => poolIndex(suggestions[i].nurse) < poolIndex(suggestions[j].nurse)

\* Two different nurses with equal scores are suggested, behind a nurse the
\* sort has moved in front of them.
C6_Witness ==
    \E h, i, j \in DOMAIN suggestions :
        /\ h < i /\ i < j
        /\ suggestions[i].compatibility = suggestions[j].compatibility
        /\ suggestions[i].nurse.experienceLevel
               # suggestions[j].nurse.experienceLevel
        /\ poolIndex(suggestions[h].nurse) > poolIndex(suggestions[j].nurse)

\* The shifts of the pool that hold the nurse, are on another day than the
\* source shift and have a type the requester prefers
CandidateShifts(nurse) ==
    {k \in DOMAIN shifts :
        /\ nurse.id \in Range(shifts[k].assignedNurses)
        /\ (shifts[k].date \div 24) # (currentShift.date \div 24)
        /\ shifts[k].type \in Range(currentNurse.preferredShifts)}

\* C18: no nurse of the pool is eligible and the list is empty, or, once the
\* list is computed from at most 5 eligible nurses, each of them is in it
\* exactly once, without a shift if none of the shifts matches.
C18_AllEligibleSuggested ==
    /\ EligibleSet = {} => suggestions = <<>>
    /\ (suggestions # <<>> /\ Cardinality(EligibleSet) <= 5) =>
           \A k \in EligibleSet :
               LET mine == {i \in DOMAIN suggestions :
                               suggestions[i].nurse.id = nurses[k].id}
               IN  /\ Cardinality(mine) = 1
                   /\ CandidateShifts(nurses[k]) = {} =>
                          \A i \in mine : suggestions[i].shift = Undefined

\* A list computed from a pool with 4 or 5 eligible nurses and others who
\* are not; one of the suggestions has no shift.
C18_Witness ==
    /\ Cardinality(EligibleSet) \in {4, 5}
    /\ Len(suggestions) = Cardinality(EligibleSet)
    /\ Cardinality(EligibleSet) < Len(nurses) - 1
    /\ \E i \in DOMAIN suggestions : suggestions[i].shift = Undefined

\* getCompatibilityReasons has no reason but these two and the entry that
\* lists the shared specializations
rank(reason) ==
    CASE reason = "Same department" -> 1
      [] reason = "Prefers this shift type" -> 2
      [] OTHER -> 3

\* C19: the reasons hold "Same department" exactly if the departments are
\* equal, "Prefers this shift type" exactly if the candidate prefers the type
\* of the shift, an entry "Shared specializations: ..." exactly if the two
\* nurses share a specialization, in this order and nothing else.
C19_ReasonsMatchConditions ==
    scored.explained =>
        LET n1 == scored.nurse1
            n2 == scored.nurse2
            r == scored.reasons
            shared == Range(n1.specializations)
                          \cap Range(n2.specializations)
        IN  /\ ("Same department" \in Range(r))
                   <=> (n1.department = n2.department)
            /\ ("Prefers this shift type" \in Range(r))
                   <=> (scored.shift.type \in Range(n2.preferredShifts))
            /\ (\E i \in DOMAIN r : rank(r[i]) = 3) <=> (shared # {})
            /\ \A i \in DOMAIN r :
                   rank(r[i]) = 3 =>
                       /\ Len(r[i]) > 24
                       /\ SubSeq(r[i], 1, 24) = "Shared specializations: "
            /\ \A i, j \in DOMAIN r : i < j => rank(r[i]) < rank(r[j])

\* The reasons of a candidate of another department who prefers the type of
\* the shift and shares a specialization with the requester.
C19_Witness ==
    /\ scored.explained
    /\ scored.nurse1.department # scored.nurse2.department
    /\ Len(scored.reasons) = 2
    /\ scored.reasons[1] = "Prefers this shift type"

\* C20: the shift of a suggestion is the first shift of the pool that holds
\* the candidate, is on another day than the source shift and has a type the
\* requester prefers; it is undefined if the pool has no such shift.
C20_FirstMatchingShift ==
    \A i \in DOMAIN suggestions :
        LET matches == CandidateShifts(suggestions[i].nurse)
        IN  IF matches = {}
            THEN suggestions[i].shift = Undefined
            ELSE suggestions[i].shift =
                     shifts[CHOOSE k \in matches : \A m \in matches : k <= m]

\* Nurse 2 is offered with s4, not with s2 (on the day of the source shift),
\* s3 (a type the requester does not prefer) or s5 (later in the pool), and
\* another candidate has no shift.
C20_Witness ==
    /\ \E i \in DOMAIN suggestions :
           /\ suggestions[i].nurse.id = "2"
           /\ suggestions[i].shift # Undefined
           /\ suggestions[i].shift.id = "s4"
    /\ \E j \in DOMAIN suggestions : suggestions[j].shift = Undefined

\* C21: the overlap points of a scored pair are the same with the two nurses
\* exchanged.
C21_OverlapIsSymmetric ==
    scored.called =>
        overlapPoints(scored.nurse1, scored.nurse2)
            = overlapPoints(scored.nurse2, scored.nurse1)

\* The eligible nurses of the pool that are not in the suggestion list
LeftOut ==
    {k \in EligibleSet :
        ~\E i \in DOMAIN suggestions : suggestions[i].nurse.id = nurses[k].id}

\* C24: when more than 5 nurses are eligible, no eligible nurse left out of
\* the suggestion list scores higher than a nurse in it.
C24_TruncationKeepsTheBest ==
    (suggestions # <<>> /\ Cardinality(EligibleSet) > 5) =>
        \A k \in LeftOut, i \in DOMAIN suggestions :
            calculateCompatibility(currentNurse, nurses[k], currentShift)
                <= suggestions[i].compatibility

\* Six nurses are eligible; the one left out scores lower than every
\* suggested nurse and precedes one of them in the pool.
C24_Witness ==
    /\ Cardinality(EligibleSet) > 5
    /\ Len(suggestions) = 5
    /\ \E k \in LeftOut :
           /\ \A i \in DOMAIN suggestions :
                  calculateCompatibility(currentNurse, nurses[k], currentShift)
                      < suggestions[i].compatibility
           /\ \E i \in DOMAIN suggestions :
                  k < poolIndex(suggestions[i].nurse)

\* The scored pair passes the filter of generateSuggestions: the score is
\* the compatibility of a suggestion
ScoredPairIsEligible ==
    eligibleNurses(<<scored.nurse2>>, scored.nurse1.id, scored.nurse1,
                   scored.shift) # <<>>

\* C29: the compatibility of an eligible candidate, whose experience level
\* like the requester's is Junior, Mid, Senior or Expert, is at least 60.
C29_EligibleScoresAtLeast60 ==
    (scored.called /\ ScoredPairIsEligible) => scored.score >= 60

\* An eligible candidate three experience levels away from the requester
\* and without a shared specialization scores exactly 60.
C29_Witness ==
    /\ scored.called
    /\ ScoredPairIsEligible
    /\ Abs(ord(scored.nurse1.experienceLevel)
               - ord(scored.nurse2.experienceLevel)) = 3
    /\ commonSpecs(scored.nurse1, scored.nurse2) = <<>>
    /\ scored.score = 60

\* C22: a run of the suggestion computation leaves the nurse pool, the shift
\* pool and the store's swapRequests as they were.
C22_SuggestionsReadOnly ==
    [][/\ nurses' = nurses
       /\ shifts' = shifts
       /\ swapRequests' = swapRequests]_vars

\* The computation has run on a pool it had to filter and to reorder: a
\* nurse of the pool is not suggested and a suggested nurse comes before a
\* nurse that precedes it in the pool.
C22_Witness ==
    /\ suggestions # <<>>
    /\ Len(suggestions) < Len(nurses) - 1
    /\ \E i, j \in DOMAIN suggestions :
           /\ i < j
           /\ poolIndex(suggestions[i].nurse) > poolIndex(suggestions[j].nurse)
----------------------------------------------------------------------------
(* Workflow specification: the stores, the form and the submission *)

\* The nurse list the API has answered GET /nurses with: nurse 1 and two
\* colleagues of the same department who prefer Day shifts
WardNurses ==
    <<Requester,
      [id |-> "2", department |-> "ICU",
       specializations |-> <<"Critical Care", "Emergency">>,
       experienceLevel |-> "Senior", preferredShifts |-> <<"Day">>],
      [id |-> "3", department |-> "ICU",
       specializations |-> <<"Critical Care">>,
       experienceLevel |-> "Expert", preferredShifts |-> <<"Day", "Night">>]>>

\* The shifts the API answers GET /schedules with: the source shift s1 of
\* nurse 1, a shift of nurses 2 and 3 on the same day and a shift of nurse 2
\* on another day
WardShifts ==
    <<[id |-> "s1", date |-> 8, type |-> "Day", assignedNurses |-> <<"1">>],
      [id |-> "s2", date |-> 16, type |-> "Evening",
       assignedNurses |-> <<"2", "3">>],
      [id |-> "s4", date |-> 32, type |-> "Day",
       assignedNurses |-> <<"2">>]>>

\* Values of the nurseId prop: two nurses of the pool and an id the pool
\* does not hold
PropNurseIds == {"1", "2", "9"}

\* A text of n characters
RECURSIVE textOfLength(_)
textOfLength(n) == IF n = 0 THEN "" ELSE textOfLength(n - 1) \o "x"

\* Texts typed into the reason field
ReasonInputs == {textOfLength(n) : n \in {0, 9} \cup 10..MaxReasonLen}

UndefinedStr == "undefined"   \* undefined where a string is expected

RemoveAt(seq, k) == SubSeq(seq, 1, k - 1) \o SubSeq(seq, k + 1, Len(seq))

formRenderedAlways == ~closed

\* What the component returns: the message of the early return, or the page
\* with the suggestions and the form
rendered ==
    IF findShift(shifts, shiftId) = Undefined
           \/ findNurse(nurses, nurseId) = Undefined
    THEN "Invalid shift or nurse data"
    ELSE "form"

\* The component returns the form unless the shift or the nurse is missing;
\* it is mounted until onSuccess hands control back to the parent.
formRendered ==
    /\ findShift(shifts, shiftId) # Undefined
    /\ findNurse(nurses, nurseId) # Undefined
    /\ ~closed

InitWorkflow ==
    /\ nurses = WardNurses
    /\ shifts = <<>>
    /\ nurseId \in PropNurseIds
    /\ shiftId = "s1"
    /\ suggestions = <<>>
    /\ IdleStore
    /\ FreshForm
    /\ scored = NotScored
    /\ selectedRequest = Null
    /\ conflicts = <<>>
    /\ nursesLoading = NotLoading

\* private maxRetries = 3 (no VITE_API_RETRY_ATTEMPTS in the environment)
maxRetries == 3

\* The axios config of a call of this.client.get/post/put: the interceptor's
\* fields _retry and _retryCount are absent; sent counts the HTTP requests
\* the client has issued for the call.
firstAttempt == [sent |-> 1]

\* The failures of a request: no answer at all, or an answer with status 500
\* and no body (status 401 leaves the page for /login)
AxiosErrors ==
    {[code |-> "ERR_NETWORK", hasResponse |-> FALSE,
      message |-> "Network Error"],
     [code |-> "ERR_BAD_RESPONSE", hasResponse |-> TRUE,
      message |-> "Request failed with status code 500"]}

retryCountOrZeroBelowMax(originalRequest) ==
    (IF "_retryCount" \in DOMAIN originalRequest
     THEN originalRequest._retryCount ELSE 0) < maxRetries

\* originalRequest._retryCount < this.maxRetries; undefined < 3 is false
retryCountBelowMax(originalRequest) ==
    IF "_retryCount" \in DOMAIN originalRequest
    THEN originalRequest._retryCount < maxRetries
    ELSE FALSE

\* The condition of the retry branch of the response interceptor
shouldRetry(originalRequest, error) ==
    /\ ~("_retry" \in DOMAIN originalRequest /\ originalRequest._retry)
    /\ retryCountBelowMax(originalRequest)
    /\ (error.code = "NETWORK_ERROR" \/ ~error.hasResponse)

\* The retry branch: marks the config and issues it again
retried(originalRequest) ==
    [_retry |-> TRUE,
     _retryCount |-> (IF "_retryCount" \in DOMAIN originalRequest
                      THEN originalRequest._retryCount ELSE 0) + 1,
     sent |-> originalRequest.sent + 1]

\* ApiClient.handleError: the ApiError the store catches
handleError(error) == [message |-> error.message, code |-> error.code]

\* notificationStore.addNotification; a notification is its type and title
addNotification(list, type, title) ==
    Append(list, [type |-> type, title |-> title])

\* A timer set by addNotification fires after 5000 ms and filters out the
\* notifications with its id; the id is Date.now(), so the oldest
\* notification goes together with those added in the same millisecond.
NotificationTimeout ==
    /\ \E j \in 1..Len(notifications) :
          notifications' = SubSeq(notifications, j + 1, Len(notifications))
    /\ UNCHANGED <<nurses, shifts, swapRequests, loadingState, pending,
                   nurseId, shiftId, suggestions, selectedSuggestion, form,
                   errors, closed, targetChosenBy, scored>>
    /\ UNCHANGED selectedRequest
    /\ UNCHANGED <<conflicts, nursesLoading>>

\* scheduleStore.fetchSchedules up to the await
FetchSchedulesStart ==
    /\ Len(pending) < MaxPending
    /\ loadingState' = [isLoading |-> TRUE, error |-> NullStr]
    /\ pending' = Append(pending,
                          [op |-> "fetchSchedules", request |-> Undefined,
                           config |-> firstAttempt])
    /\ UNCHANGED <<nurses, shifts, swapRequests, nurseId, shiftId,
                   suggestions, selectedSuggestion, form, errors, closed,
                   scored>>
    /\ UNCHANGED targetChosenBy
    /\ UNCHANGED notifications
    /\ UNCHANGED selectedRequest
    /\ UNCHANGED <<conflicts, nursesLoading>>

\* scheduleStore.fetchSchedules after the await, the API having answered
FetchSchedulesSucceed ==
    /\ \E k \in DOMAIN pending :
          /\ pending[k].op = "fetchSchedules"
          /\ pending' = RemoveAt(pending, k)
    /\ shifts' = WardShifts
    /\ loadingState' = NotLoading
    /\ suggestions' = IF closed THEN suggestions
                      ELSE useEffectSuggestions(nurses, WardShifts, nurseId,
                                                shiftId, suggestions)
    /\ Len(notifications) < MaxNotifications
    /\ notifications' =
           addNotification(notifications, "success", "Schedules Loaded")
    /\ UNCHANGED <<nurses, swapRequests, nurseId, shiftId,
                   selectedSuggestion, form, errors, closed, scored>>
    /\ UNCHANGED targetChosenBy
    /\ UNCHANGED selectedRequest
    /\ UNCHANGED <<conflicts, nursesLoading>>

\* The request of fetchSchedules fails: the response interceptor retries or
\* rejects, and on a rejection fetchSchedules continues in its catch block
FetchSchedulesFail ==
    /\ \E k \in DOMAIN pending, error \in AxiosErrors :
          /\ pending[k].op = "fetchSchedules"
          /\ IF shouldRetry(pending[k].config, error)
             THEN /\ pending' = [pending EXCEPT ![k].config = retried(@)]
                  /\ UNCHANGED <<loadingState, notifications>>
             ELSE /\ Len(notifications) < MaxNotifications
                  /\ pending' = RemoveAt(pending, k)
                  /\ loadingState' =
                         [isLoading |-> FALSE,
                          error |-> handleError(error).message]
                  /\ notifications' =
                         addNotification(notifications, "error",
                                         "Error Loading Schedules")
    /\ UNCHANGED <<nurses, shifts, swapRequests, nurseId, shiftId,
                   suggestions, selectedSuggestion, form, errors, closed,
                   scored>>
    /\ UNCHANGED targetChosenBy
    /\ UNCHANGED selectedRequest
    /\ UNCHANGED <<conflicts, nursesLoading>>

\* The parent renders the component again with another requester; the
\* effect lists nurseId among its dependencies and runs again.
Rerender ==
    /\ ~closed
    /\ \E nid \in PropNurseIds :
          /\ nid # nurseId
          /\ nurseId' = nid
          /\ suggestions' = useEffectSuggestions(nurses, shifts, nid, shiftId,
                                                 suggestions)
    /\ UNCHANGED <<nurses, shifts, swapRequests, loadingState, pending,
                   shiftId, selectedSuggestion, form, errors, closed, scored>>
    /\ UNCHANGED targetChosenBy
    /\ UNCHANGED notifications
    /\ UNCHANGED selectedRequest
    /\ UNCHANGED <<conflicts, nursesLoading>>

\* Click on a suggestion card
selectSuggestion(suggestion) ==
    /\ selectedSuggestion' = suggestion
    /\ form' = [form EXCEPT
           !.targetNurseId = suggestion.nurse.id,
           !.targetShiftId = IF suggestion.shift # Undefined
                             THEN suggestion.shift.id ELSE @]

ClickSuggestion ==
    /\ formRendered
    /\ \E i \in DOMAIN suggestions : selectSuggestion(suggestions[i])
    /\ UNCHANGED <<nurses, shifts, swapRequests, loadingState, pending,
                   nurseId, shiftId, suggestions, errors, closed, scored>>
    /\ targetChosenBy' = "suggestion"
    /\ UNCHANGED notifications
    /\ UNCHANGED selectedRequest
    /\ UNCHANGED <<conflicts, nursesLoading>>

\* The options of the select registered as targetNurseId
targetNurseOptions ==
    {""} \cup {nurses[k].id : k \in {j \in DOMAIN nurses :
                                         nurses[j].id # nurseId}}

\* The options of the select registered as targetShiftId
targetShiftOptions ==
    {""} \cup {shifts[k].id : k \in {j \in DOMAIN shifts :
        /\ includes(shifts[j].assignedNurses, form.targetNurseId)
        /\ ~isSameDay(shifts[j].date, findShift(shifts, shiftId).date)}}

\* The user picks an option of the nurse select
ChangeTargetNurse ==
    /\ formRendered
    /\ \E v \in targetNurseOptions :
          /\ v # form.targetNurseId
          /\ form' = [form EXCEPT !.targetNurseId = v]
    /\ targetChosenBy' = "manual"
    /\ UNCHANGED notifications
    /\ UNCHANGED <<nurses, shifts, swapRequests, loadingState, pending,
                   nurseId, shiftId, suggestions, selectedSuggestion, errors,
                   closed, scored>>
    /\ UNCHANGED selectedRequest
    /\ UNCHANGED <<conflicts, nursesLoading>>

\* The user picks an option of the shift select, shown once a nurse is chosen
ChangeTargetShift ==
    /\ formRendered
    /\ form.targetNurseId # ""
    /\ \E v \in targetShiftOptions :
          /\ v # form.targetShiftId
          /\ form' = [form EXCEPT !.targetShiftId = v]
    /\ UNCHANGED <<nurses, shifts, swapRequests, loadingState, pending,
                   nurseId, shiftId, suggestions, selectedSuggestion, errors,
                   closed, scored>>
    /\ UNCHANGED targetChosenBy
    /\ UNCHANGED notifications
    /\ UNCHANGED selectedRequest
    /\ UNCHANGED <<conflicts, nursesLoading>>

\* The user edits the reason
ChangeReason ==
    /\ formRendered
    /\ \E text \in ReasonInputs :
          /\ text # form.reason
          /\ form' = [form EXCEPT !.reason = text]
    /\ UNCHANGED <<nurses, shifts, swapRequests, loadingState, pending,
                   nurseId, shiftId, suggestions, selectedSuggestion, errors,
                   closed, scored>>
    /\ UNCHANGED targetChosenBy
    /\ UNCHANGED notifications
    /\ UNCHANGED selectedRequest
    /\ UNCHANGED <<conflicts, nursesLoading>>

schemaErrorsMin9(data) ==
    {f \in {"targetNurseId"} : data.targetNurseId = ""}
        \cup {f \in {"reason"} : data.reason = "" \/ Len(data.reason) < 9}

\* The yup schema: the names of the fields that fail validation
schemaErrors(data) ==
    {f \in {"targetNurseId"} : data.targetNurseId = ""}
        \cup {f \in {"reason"} : data.reason = "" \/ Len(data.reason) < 10}

swapRequestOfTarget(data) ==
    [requesterId |-> data.targetNurseId,
     targetId |-> data.targetNurseId,
     shiftId |-> shiftId,
     targetShiftId |-> IF data.targetShiftId # ""
                       THEN data.targetShiftId ELSE UndefinedStr,
     reason |-> data.reason,
     status |-> "Pending",
     autoMatched |-> (selectedSuggestion # Null)]

\* The request onSubmit hands to createSwapRequest
swapRequestOf(data) ==
    [requesterId |-> nurseId,
     targetId |-> data.targetNurseId,
     shiftId |-> shiftId,
     targetShiftId |-> IF data.targetShiftId # ""
                       THEN data.targetShiftId ELSE UndefinedStr,
     reason |-> data.reason,
     status |-> "Pending",
     autoMatched |-> (selectedSuggestion # Null)]

\* Submit button: handleSubmit validates, then onSubmit calls
\* createSwapRequest, which runs up to its await.
\* The button is disabled while loadingState.isLoading.
Submit ==
    /\ formRendered
    /\ ~loadingState.isLoading
    /\ errors' = schemaErrors(form)
    /\ IF schemaErrors(form) = {}
       THEN /\ Len(pending) < MaxPending
            /\ loadingState' = [isLoading |-> TRUE, error |-> NullStr]
            /\ pending' = Append(pending, [op |-> "createSwapRequest",
                                           request |-> swapRequestOf(form),
                                           config |-> firstAttempt])
       ELSE UNCHANGED <<loadingState, pending>>
    /\ UNCHANGED <<nurses, shifts, swapRequests, nurseId, shiftId,
                   suggestions, selectedSuggestion, form, closed, scored>>
    /\ UNCHANGED targetChosenBy
    /\ UNCHANGED notifications
    /\ UNCHANGED selectedRequest
    /\ UNCHANGED <<conflicts, nursesLoading>>

\* The record the API answers POST /schedules/swap-requests with
created(request, n) ==
    [id |-> "r" \o ToString(n),
     requesterId |-> request.requesterId,
     targetId |-> request.targetId,
     shiftId |-> request.shiftId,
     targetShiftId |-> request.targetShiftId,
     reason |-> request.reason,
     status |-> request.status,
     autoMatched |-> request.autoMatched]

\* createSwapRequest after the await, the API having answered; onSubmit
\* then notifies and calls onSuccess, on which the parent unmounts the
\* component: its useState and useForm state is gone
CreateSwapRequestSucceed ==
    /\ \E k \in DOMAIN pending :
          /\ pending[k].op = "createSwapRequest"
          /\ pending' = RemoveAt(pending, k)
          /\ swapRequests' =
                 Append(swapRequests,
                        created(pending[k].request, Len(swapRequests) + 1))
    /\ loadingState' = NotLoading
    /\ closed' = TRUE
    /\ suggestions' = <<>>
    /\ selectedSuggestion' = Null
    /\ form' = defaultValues
    /\ errors' = {}
    /\ targetChosenBy' = "default"
    /\ Len(notifications) < MaxNotifications
    /\ notifications' =
           addNotification(
               addNotification(notifications, "success",
                               "Swap Request Created"),
               "success", "Swap request submitted")
    /\ UNCHANGED <<nurses, shifts, nurseId, shiftId, scored>>
    /\ UNCHANGED selectedRequest
    /\ UNCHANGED <<conflicts, nursesLoading>>

createSwapRequestCatchNothing(list) == list

\* The store's catch block of createSwapRequest followed by the catch block
\* of onSubmit, which the rethrown error reaches
createSwapRequestCatch(list) ==
    addNotification(
        addNotification(list, "error", "Error Creating Swap Request"),
        "error", "Failed to submit request")

CreateSwapRequestFailReset ==
    /\ \E k \in DOMAIN pending, error \in AxiosErrors :
          /\ pending[k].op = "createSwapRequest"
          /\ Len(notifications) < MaxNotifications
          /\ pending' = RemoveAt(pending, k)
          /\ loadingState' = [isLoading |-> FALSE,
                              error |-> handleError(error).message]
          /\ notifications' = createSwapRequestCatch(notifications)
    /\ form' = defaultValues
    /\ selectedSuggestion' = Null
    /\ UNCHANGED <<nurses, shifts, swapRequests, nurseId, shiftId,
                   suggestions, errors, closed, scored, targetChosenBy>>
    /\ UNCHANGED selectedRequest
    /\ UNCHANGED <<conflicts, nursesLoading>>

\* The request of createSwapRequest fails: the response interceptor retries
\* or rejects; on a rejection createSwapRequest notifies and throws, and
\* onSubmit notifies
CreateSwapRequestFail ==
    /\ \E k \in DOMAIN pending, error \in AxiosErrors :
          /\ pending[k].op = "createSwapRequest"
          /\ IF shouldRetry(pending[k].config, error)
             THEN /\ pending' = [pending EXCEPT ![k].config = retried(@)]
                  /\ UNCHANGED <<loadingState, notifications>>
             ELSE /\ Len(notifications) < MaxNotifications
                  /\ pending' = RemoveAt(pending, k)
                  /\ loadingState' =
                         [isLoading |-> FALSE,
                          error |-> handleError(error).message]
                  /\ notifications' = createSwapRequestCatch(notifications)
    /\ UNCHANGED <<nurses, shifts, swapRequests, nurseId, shiftId,
                   suggestions, selectedSuggestion, form, errors, closed,
                   scored>>
    /\ UNCHANGED targetChosenBy
    /\ UNCHANGED selectedRequest
    /\ UNCHANGED <<conflicts, nursesLoading>>

Init == InitWorkflow

Next ==
    \/ FetchSchedulesStart
    \/ FetchSchedulesSucceed
    \/ FetchSchedulesFail
    \/ ClickSuggestion
    \/ ChangeTargetNurse
    \/ ChangeTargetShift
    \/ ChangeReason
    \/ Submit
    \/ CreateSwapRequestSucceed
    \/ CreateSwapRequestFail
    \/ NotificationTimeout

Spec == Init /\ [][Next]_vars

\* The workflow under a parent that may change the props
NextProps == Next \/ Rerender

SpecProps == Init /\ [][NextProps]_vars
----------------------------------------------------------------------------
(* Properties of the form and of the submission *)

\* This step hands a request to createSwapRequest
CallAdded ==
    /\ Len(pending') = Len(pending) + 1
    /\ pending'[Len(pending')].op = "createSwapRequest"

\* C8: a submission with an empty target or a reason of fewer than 10
\* characters sets a validation error and hands nothing to
\* createSwapRequest; any other submission is handed to createSwapRequest.
C8_ValidationGate ==
    [][LET valid == form.targetNurseId # "" /\ Len(form.reason) >= 10
       IN  /\ CallAdded => valid
           /\ (Submit /\ valid) => (CallAdded /\ errors' = {})
           /\ (Submit /\ ~valid) => (errors' # {} /\ pending' = pending)
      ]_vars

\* A submission with a target and a reason of 9 characters was rejected.
C8_Witness ==
    /\ errors = {"reason"}
    /\ form.targetNurseId # ""
    /\ Len(form.reason) = 9
    /\ pending = <<>>
    /\ swapRequests = <<>>

\* C9: no request handed to createSwapRequest names the requester as target.
C9_TargetIsNotRequester ==
    /\ \A k \in DOMAIN pending :
           pending[k].op = "createSwapRequest"
               => pending[k].request.targetId # pending[k].request.requesterId
    /\ \A k \in DOMAIN swapRequests :
           swapRequests[k].targetId # swapRequests[k].requesterId

\* C10: a request handed to createSwapRequest has autoMatched = TRUE exactly
\* if the click on a suggestion was what set its target nurse last.
C10_AutoMatchedIffSuggestionClicked ==
    [][CallAdded =>
          (pending'[Len(pending')].request.autoMatched
              <=> targetChosenBy = "suggestion")]_vars

\* This step settles a call of createSwapRequest as failed
CallFailed ==
    /\ \E k \in DOMAIN pending :
          /\ pending[k].op = "createSwapRequest"
          /\ pending' = RemoveAt(pending, k)
    /\ loadingState'.error # NullStr

\* C11: when a call of createSwapRequest fails, no swap request is added to
\* the store, onSuccess is not called (the workflow is where it was) and an
\* error notification is added.
C11_FailedSubmissionStaysDraft ==
    [][CallFailed =>
          /\ swapRequests' = swapRequests
          /\ closed' = closed
          /\ \E i \in (Len(notifications) + 1)..Len(notifications') :
                 notifications'[i].type = "error"]_vars

\* A submission has failed: the component is still mounted, the store holds
\* no swap request and the notification of onSubmit is on display.
C11_Witness ==
    /\ ~closed
    /\ swapRequests = <<>>
    /\ pending = <<>>
    /\ loadingState.error # NullStr
    /\ Len(notifications) = 2
    /\ notifications[2] = [type |-> "error",
                           title |-> "Failed to submit request"]

\* C12: the failure of a call of createSwapRequest leaves the target nurse,
\* the target shift, the reason and the selected suggestion as they were, so
\* the request a new submission would hand over is the same as before.
C12_FailureKeepsDraft ==
    [][CallFailed =>
          /\ form' = form
          /\ selectedSuggestion' = selectedSuggestion
          /\ swapRequestOf(form)' = swapRequestOf(form)]_vars

\* A submission of a clicked suggestion with a target shift has failed and
\* the draft still holds it.
C12_Witness ==
    /\ ~closed
    /\ loadingState.error = "Request failed with status code 500"
    /\ notifications # <<>>
    /\ notifications[Len(notifications)].title = "Failed to submit request"
    /\ selectedSuggestion # Null
    /\ form.targetShiftId # ""
    /\ Len(form.reason) >= 10

\* The shift or the requester is not in the pools
invalidProps ==
    findShift(shifts, shiftId) = Undefined
        \/ findNurse(nurses, nurseId) = Undefined

\* C14: while the source shift or the requester is missing from the pools,
\* the component shows "Invalid shift or nurse data", no request is handed
\* to createSwapRequest and the effect sets no suggestions.
C14_InvalidPropsBlockTheForm ==
    [][/\ invalidProps =>
              (rendered = "Invalid shift or nurse data" /\ ~CallAdded)
       /\ invalidProps' => suggestions' = suggestions]_vars

\* The shifts are loaded, the requester is not among the nurses, and the
\* effect has left the suggestions empty.
C14_Witness ==
    /\ shifts # <<>>
    /\ findShift(shifts, shiftId) # Undefined
    /\ findNurse(nurses, nurseId) = Undefined
    /\ notifications # <<>>
    /\ suggestions = <<>>
    /\ pending = <<>>

C17_SubmittedRequestIsPending ==
    [][/\ CallAdded =>
              LET request == pending'[Len(pending')].request
              IN  /\ request.requesterId = nurseId
                  /\ request.shiftId = shiftId
                  /\ request.status = "Pending"
       /\ swapRequests' # swapRequests =>
              \E k \in DOMAIN pending :
                  /\ pending[k].op = "createSwapRequest"
                  /\ pending' = RemoveAt(pending, k)
                  /\ loadingState'.error = NullStr
                  /\ swapRequests' =
                         Append(swapRequests,
                                created(pending[k].request,
                                        Len(swapRequests) + 1))]_vars

\* The API has answered a call and the store holds the created request.
C17_Witness ==
    /\ closed
    /\ Len(swapRequests) = 1
    /\ swapRequests[1].requesterId = nurseId
    /\ swapRequests[1].shiftId = shiftId
    /\ swapRequests[1].status = "Pending"

\* C25: after a click on a suggestion, a non-empty targetShiftId of the form
\* is the id of a shift that the form's target nurse is assigned to.
C25_TargetShiftBelongsToTarget ==
    (formRendered /\ targetChosenBy = "suggestion"
         /\ form.targetShiftId # "") =>
        \E i \in DOMAIN shifts :
            /\ shifts[i].id = form.targetShiftId
            /\ includes(shifts[i].assignedNurses, form.targetNurseId)

----------------------------------------------------------------------------
(* Overlap specification: the workflow next to a SchedulePage that is       *)
(* mounted while other operations of the store are in flight               *)

\* The calls of a store operation that await the API's answer
inFlight(op) == {k \in DOMAIN pending : pending[k].op = op}

\* The effect of SchedulePage after it is mounted: it calls fetchSchedules,
\* which runs up to its await, whatever else the store is doing
MountSchedulePage ==
    /\ Cardinality(inFlight("fetchSchedules")) < MaxPending
    /\ loadingState' = [isLoading |-> TRUE, error |-> NullStr]
    /\ pending' = Append(pending,
                          [op |-> "fetchSchedules", request |-> Undefined,
                           config |-> firstAttempt])
    /\ UNCHANGED <<nurses, shifts, swapRequests, nurseId, shiftId,
                   suggestions, selectedSuggestion, form, errors, closed,
                   targetChosenBy, notifications, selectedRequest, conflicts,
                   nursesLoading, scored>>

NextOverlap ==
    \/ MountSchedulePage
    \/ FetchSchedulesSucceed
    \/ FetchSchedulesFail
    \/ ClickSuggestion
    \/ ChangeTargetNurse
    \/ ChangeTargetShift
    \/ ChangeReason
    \/ Submit
    \/ CreateSwapRequestSucceed
    \/ CreateSwapRequestFail
    \/ NotificationTimeout

SpecOverlap == Init /\ [][NextOverlap]_vars

\* C27: loadingState.isLoading of the schedule store is true exactly when an
\* operation of the store is in flight.
C27_LoadingIffInFlight == loadingState.isLoading <=> (pending # <<>>)

\* disabled={loadingState.isLoading} of the Submit button
submitDisabled == loadingState.isLoading

\* C28: while a createSwapRequest call of the form on display is in
\* flight, the Submit button is disabled.
C28_SubmitDisabledWhileInFlight ==
    (formRendered /\ inFlight("createSwapRequest") # {}) => submitDisabled

----------------------------------------------------------------------------
(* Review specification: SwapRequestList and the decisions on requests *)

\* The swap requests of the store when the review page is opened
ReviewRequests ==
    <<created([requesterId |-> "1", targetId |-> "2", shiftId |-> "s1",
               targetShiftId |-> "s4", reason |-> textOfLength(10),
               status |-> "Pending", autoMatched |-> FALSE], 1),
      created([requesterId |-> "2", targetId |-> "3", shiftId |-> "s4",
               targetShiftId |-> UndefinedStr, reason |-> textOfLength(10),
               status |-> "Pending", autoMatched |-> TRUE], 2)>>

\* SwapRequestList is shown, with its filters left as they are, in place of
\* CreateSwapRequest
InitReview ==
    /\ nurses = WardNurses
    /\ shifts = WardShifts
    /\ nurseId = "1"
    /\ shiftId = "s1"
    /\ suggestions = <<>>
    /\ swapRequests = ReviewRequests
    /\ loadingState = NotLoading
    /\ pending = <<>>
    /\ notifications = <<>>
    /\ selectedRequest = Null
    /\ conflicts = <<>>
    /\ nursesLoading = NotLoading
    /\ selectedSuggestion = Null
    /\ form = defaultValues
    /\ errors = {}
    /\ closed = TRUE
    /\ targetChosenBy = "default"
    /\ scored = NotScored

\* What the review page leaves alone
UNCHANGEDbyReview ==
    UNCHANGED <<nurses, shifts, nurseId, shiftId, suggestions,
                selectedSuggestion, form, errors, closed, targetChosenBy,
                conflicts, nursesLoading, scored>>

\* View Details on a card: the modal is given the request of the card
ViewDetails ==
    /\ ~loadingState.isLoading
    /\ \E i \in DOMAIN swapRequests :
          /\ selectedRequest # swapRequests[i]
          /\ selectedRequest' = swapRequests[i]
    /\ UNCHANGED <<swapRequests, loadingState, pending, notifications>>
    /\ UNCHANGEDbyReview

\* The close button of the modal
CloseDetails ==
    /\ ~loadingState.isLoading
    /\ selectedRequest # Null
    /\ selectedRequest' = Null
    /\ UNCHANGED <<swapRequests, loadingState, pending, notifications>>
    /\ UNCHANGEDbyReview

\* The ids behind the Approve and Reject buttons on display: those of the
\* cards whose request is Pending and that of the modal if the request it
\* was given is Pending
decisionButtons ==
    {swapRequests[i].id : i \in {j \in DOMAIN swapRequests :
                                     swapRequests[j].status = "Pending"}}
        \cup (IF selectedRequest # Null
              THEN {r.id : r \in {q \in {selectedRequest} :
                                      q.status = "Pending"}}
              ELSE {})

\* A store operation on one swap request up to its await
reviewCall(op, requestId) ==
    /\ Len(pending) < MaxPending
    /\ loadingState' = [isLoading |-> TRUE, error |-> NullStr]
    /\ pending' = Append(pending, [op |-> op,
                                   request |-> [id |-> requestId],
                                   config |-> firstAttempt])
    /\ UNCHANGED <<swapRequests, notifications, selectedRequest>>
    /\ UNCHANGEDbyReview

\* handleApprove up to the await in approveSwapRequest
HandleApprove ==
    /\ ~loadingState.isLoading
    /\ \E id \in decisionButtons : reviewCall("approveSwapRequest", id)

\* handleReject up to the await in rejectSwapRequest
HandleReject ==
    /\ ~loadingState.isLoading
    /\ \E id \in decisionButtons : reviewCall("rejectSwapRequest", id)

\* The request as the API answers a decision with
reviewed(request, status) == [request EXCEPT !.status = status]

\* state.swapRequests.map(request => request.id === requestId ? ... : request)
replaceRequest(requests, requestId, status) ==
    [i \in DOMAIN requests |->
        IF requests[i].id = requestId
        THEN reviewed(requests[i], status) ELSE requests[i]]

\* approveSwapRequest or rejectSwapRequest after the await, the API having
\* answered, and the rest of handleApprove or handleReject
reviewSucceed(k, op, status, storeTitle, title) ==
    /\ pending[k].op = op
    /\ pending' = RemoveAt(pending, k)
    /\ swapRequests' =
           replaceRequest(swapRequests, pending[k].request.id, status)
    /\ loadingState' = NotLoading
    /\ Len(notifications) < MaxNotifications
    /\ notifications' =
           addNotification(addNotification(notifications, "success",
                                           storeTitle),
                           "success", title)
    /\ UNCHANGED selectedRequest
    /\ UNCHANGEDbyReview

\* The request of approveSwapRequest or rejectSwapRequest fails: the
\* interceptor retries or rejects; on a rejection the store notifies and
\* throws, and handleApprove or handleReject notifies
reviewFail(k, error, op, storeTitle, title) ==
    /\ pending[k].op = op
    /\ IF shouldRetry(pending[k].config, error)
       THEN /\ pending' = [pending EXCEPT ![k].config = retried(@)]
            /\ UNCHANGED <<loadingState, notifications>>
       ELSE /\ Len(notifications) < MaxNotifications
            /\ pending' = RemoveAt(pending, k)
            /\ loadingState' = [isLoading |-> FALSE,
                                error |-> handleError(error).message]
            /\ notifications' =
                   addNotification(
                       addNotification(notifications, "error", storeTitle),
                       "error", title)
    /\ UNCHANGED <<swapRequests, selectedRequest>>
    /\ UNCHANGEDbyReview

ApproveSwapRequestSucceed ==
    \E k \in DOMAIN pending :
        reviewSucceed(k, "approveSwapRequest", "Approved",
                      "Swap Request Approved", "Swap request approved")

RejectSwapRequestSucceed ==
    \E k \in DOMAIN pending :
        reviewSucceed(k, "rejectSwapRequest", "Rejected",
                      "Swap Request Rejected", "Swap request rejected")

ApproveSwapRequestFail ==
    \E k \in DOMAIN pending, error \in AxiosErrors :
        reviewFail(k, error, "approveSwapRequest",
                   "Error Approving Swap Request", "Failed to approve request")

RejectSwapRequestFail ==
    \E k \in DOMAIN pending, error \in AxiosErrors :
        reviewFail(k, error, "rejectSwapRequest",
                   "Error Rejecting Swap Request", "Failed to reject request")

NextReview ==
    \/ ViewDetails
    \/ CloseDetails
    \/ HandleApprove
    \/ HandleReject
    \/ ApproveSwapRequestSucceed
    \/ RejectSwapRequestSucceed
    \/ ApproveSwapRequestFail
    \/ RejectSwapRequestFail
    \/ NotificationTimeout

SpecReview == InitReview /\ [][NextReview]_vars

\* This step hands a request id to approveSwapRequest or rejectSwapRequest
ReviewCallAdded ==
    /\ Len(pending') = Len(pending) + 1
    /\ pending'[Len(pending')].op
           \in {"approveSwapRequest", "rejectSwapRequest"}

\* C13: a swap request that is Approved or Rejected keeps its status, and
\* approveSwapRequest and rejectSwapRequest are only called for a request
\* whose status in the store is Pending.
C13_DecisionsAreFinal ==
    [][/\ \A i \in DOMAIN swapRequests :
              swapRequests[i].status \in {"Approved", "Rejected"} =>
                  /\ i \in DOMAIN swapRequests'
                  /\ swapRequests'[i].status = swapRequests[i].status
       /\ ReviewCallAdded =>
              \E i \in DOMAIN swapRequests :
                  /\ swapRequests[i].id = pending'[Len(pending')].request.id
                  /\ swapRequests[i].status = "Pending"]_vars

----------------------------------------------------------------------------
(* Editor specification: ScheduleEditor and the drag-and-drop of nurses *)

\* The selectedDate prop: the day of the shifts below
selectedDate == 8

\* The shifts of the store when the editor is opened: the assignments of
\* mockShifts, three shifts of one day, nurse 2 being in two of them
EditorShifts ==
    <<[id |-> "1", date |-> 8, type |-> "Day", requiredStaff |-> 3,
       assignedNurses |-> <<"1", "3">>],
      [id |-> "2", date |-> 8, type |-> "Night", requiredStaff |-> 2,
       assignedNurses |-> <<"2">>],
      [id |-> "3", date |-> 8, type |-> "Day", requiredStaff |-> 4,
       assignedNurses |-> <<"2", "4">>]>>

\* ShiftItem: the shift has fewer assigned nurses than it requires
isUnderstaffed(shift) == Len(shift.assignedNurses) < shift.requiredStaff

\* The conflict the effect of ScheduleEditor reports for a shift, without
\* its message and its suggestions
understaffed(shift) ==
    [id |-> "conflict-" \o shift.id, type |-> "understaffed",
     severity |-> "high", shiftId |-> shift.id]

mockConflictsAtMost(ds) ==
    LET short == SelectSeq(ds, LAMBDA shift :
                     Len(shift.assignedNurses) <= shift.requiredStaff)
    IN  [i \in 1..Len(short) |-> understaffed(short[i])]

\* mockConflicts of the effect of ScheduleEditor, for the shifts of the day
mockConflicts(ds) ==
    LET short == SelectSeq(ds, LAMBDA shift :
                     Len(shift.assignedNurses) < shift.requiredStaff)
    IN  [i \in 1..Len(short) |-> understaffed(short[i])]

\* ScheduleEditor is shown in place of CreateSwapRequest; its effect has run
\* after the first render
InitEditor ==
    /\ nurses = WardNurses
    /\ shifts = EditorShifts
    /\ nurseId = "1"
    /\ shiftId = "s1"
    /\ suggestions = <<>>
    /\ swapRequests = <<>>
    /\ loadingState = NotLoading
    /\ pending = <<>>
    /\ notifications = <<>>
    /\ selectedRequest = Null
    /\ conflicts =
           mockConflicts(SelectSeq(EditorShifts, LAMBDA shift :
                                       isSameDay(shift.date, selectedDate)))
    /\ nursesLoading = NotLoading
    /\ selectedSuggestion = Null
    /\ form = defaultValues
    /\ errors = {}
    /\ closed = TRUE
    /\ targetChosenBy = "default"
    /\ scored = NotScored

dayShifts == SelectSeq(shifts, LAMBDA shift : isSameDay(shift.date, selectedDate))

\* The nurses not assigned to any shift of the day
availableNurses ==
    SelectSeq(nurses, LAMBDA nurse :
        ~\E i \in DOMAIN dayShifts :
             includes(dayShifts[i].assignedNurses, nurse.id))

\* droppableId of the Droppable of a shift
droppableIdOf(shift) == "shift-" \o shift.id

\* The Droppables of the page
droppableIds ==
    {"available"} \cup {droppableIdOf(dayShifts[i]) : i \in DOMAIN dayShifts}

\* The draggableIds of the Draggables inside a Droppable: the available
\* nurses, or the assigned nurses of the shift that the nurse store knows
draggableIds(droppableId) ==
    IF droppableId = "available"
    THEN {availableNurses[i].id : i \in DOMAIN availableNurses}
    ELSE {id \in {nurses[i].id : i \in DOMAIN nurses} :
             \E i \in DOMAIN dayShifts :
                 /\ droppableIdOf(dayShifts[i]) = droppableId
                 /\ includes(dayShifts[i].assignedNurses, id)}

\* droppableId.replace('shift-', '') for the ids above
withoutShiftPrefix(droppableId) ==
    IF Len(droppableId) >= 6 /\ SubSeq(droppableId, 1, 6) = "shift-"
    THEN SubSeq(droppableId, 7, Len(droppableId))
    ELSE droppableId

\* [...destShift.assignedNurses, nurseId]
addToShift(assigned, nurse) == Append(assigned, nurse)

\* The calls of updateShift that handleDragEnd makes for a drop, in order:
\* none for a drop on the Droppable the nurse came from
updatesOfDrop(source, destination, draggableId) ==
    LET sourceShiftId == withoutShiftPrefix(source)
        destShiftId == withoutShiftPrefix(destination)
        sourceShift == findShift(shifts, sourceShiftId)
        destShift == findShift(shifts, destShiftId)
    IN  IF sourceShiftId = destShiftId
        THEN <<>>
        ELSE (IF sourceShiftId # "available" /\ sourceShift # Undefined
              THEN <<[shiftId |-> sourceShiftId,
                      assignedNurses |->
                          SelectSeq(sourceShift.assignedNurses,
                                    LAMBDA id : id # draggableId)]>>
              ELSE <<>>)
             \o
             (IF destShiftId # "available" /\ destShift # Undefined
              THEN <<[shiftId |-> destShiftId,
                      assignedNurses |->
                          addToShift(destShift.assignedNurses,
                                     draggableId)]>>
              ELSE <<>>)

\* The locals of handleDragEnd for a drop: they live until it returns
dropOf(source, destination, draggableId) ==
    [nurseId |-> draggableId,
     sourceShiftId |-> withoutShiftPrefix(source),
     destShiftId |-> withoutShiftPrefix(destination)]

\* What the editor leaves alone
UNCHANGEDbyEditor ==
    UNCHANGED <<nurses, swapRequests, nurseId, shiftId, selectedSuggestion,
                form, errors, closed, targetChosenBy, selectedRequest,
                nursesLoading, scored>>

\* handleDragEnd for a nurse dropped on another Droppable, up to the await
\* in its first call of updateShift; the page shows a spinner while an
\* operation of the store is loading
DragEnd ==
    /\ ~loadingState.isLoading
    /\ Len(pending) < MaxPending
    /\ \E source \in droppableIds, destination \in droppableIds :
          \E draggableId \in draggableIds(source) :
              LET calls == updatesOfDrop(source, destination, draggableId)
              IN  /\ calls # <<>>
                  /\ pending' = Append(pending,
                                       [op |-> "updateShift",
                                        request |-> calls[1],
                                        next |-> Tail(calls),
                                        drop |-> dropOf(source, destination,
                                                        draggableId),
                                        config |-> firstAttempt])
    /\ loadingState' = [isLoading |-> TRUE, error |-> NullStr]
    /\ UNCHANGED <<shifts, suggestions, notifications, conflicts>>
    /\ UNCHANGEDbyEditor

\* The shift as the API answers an update with: { ...shift, ...updates }
updatedShift(shift, updates) ==
    [shift EXCEPT !.assignedNurses = updates.assignedNurses]

\* updateShift after the await, the API having answered; handleDragEnd then
\* makes its next call of updateShift or notifies
UpdateShiftSucceed ==
    /\ Len(notifications) < MaxNotifications
    /\ \E k \in DOMAIN pending :
          /\ pending[k].op = "updateShift"
          /\ shifts' =
                 [i \in DOMAIN shifts |->
                     IF shifts[i].id = pending[k].request.shiftId
                     THEN updatedShift(shifts[i], pending[k].request)
                     ELSE shifts[i]]
          /\ IF pending[k].next # <<>>
             THEN /\ pending' =
                         [pending EXCEPT ![k] =
                             [op |-> "updateShift",
                              request |-> pending[k].next[1],
                              next |-> Tail(pending[k].next),
                              drop |-> pending[k].drop,
                              config |-> firstAttempt]]
                  /\ loadingState' = [isLoading |-> TRUE, error |-> NullStr]
                  /\ notifications' =
                         addNotification(notifications, "success",
                                         "Shift Updated")
             ELSE /\ pending' = RemoveAt(pending, k)
                  /\ loadingState' = NotLoading
                  /\ notifications' =
                         addNotification(
                             addNotification(notifications, "success",
                                             "Shift Updated"),
                             "success", "Nurse assignment updated")
    /\ suggestions' = IF closed THEN suggestions
                      ELSE useEffectSuggestions(nurses, shifts', nurseId,
                                                shiftId, suggestions)
    /\ conflicts' = mockConflicts(dayShifts')
    /\ UNCHANGEDbyEditor

\* The request of updateShift fails: the interceptor retries or rejects; on a
\* rejection the store notifies and throws, and handleDragEnd gives up its
\* remaining call and notifies
UpdateShiftFail ==
    /\ \E k \in DOMAIN pending, error \in AxiosErrors :
          /\ pending[k].op = "updateShift"
          /\ IF shouldRetry(pending[k].config, error)
             THEN /\ pending' = [pending EXCEPT ![k].config = retried(@)]
                  /\ UNCHANGED <<loadingState, notifications>>
             ELSE /\ Len(notifications) < MaxNotifications
                  /\ pending' = RemoveAt(pending, k)
                  /\ loadingState' =
                         [isLoading |-> FALSE,
                          error |-> handleError(error).message]
                  /\ notifications' =
                         addNotification(
                             addNotification(notifications, "error",
                                             "Error Updating Shift"),
                             "error", "Failed to update assignment")
    /\ UNCHANGED <<shifts, suggestions, conflicts>>
    /\ UNCHANGEDbyEditor

NextEditor ==
    \/ DragEnd
    \/ UpdateShiftSucceed
    \/ UpdateShiftFail
    \/ NotificationTimeout

SpecEditor == InitEditor /\ [][NextEditor]_vars

\* C15: no shift has the same nurse id twice among its assignedNurses.
C15_NoNurseAssignedTwice ==
    \A i \in DOMAIN shifts :
        \A a, b \in DOMAIN shifts[i].assignedNurses :
            a # b => shifts[i].assignedNurses[a] # shifts[i].assignedNurses[b]

\* C23: among the conflicts on display there is one understaffed conflict
\* for each shift of the day with fewer assigned nurses than requiredStaff,
\* and none for any other shift.
C23_UnderstaffedIffBelowRequired ==
    /\ \A i \in DOMAIN dayShifts :
           LET reported == {c \in DOMAIN conflicts :
                               /\ conflicts[c].shiftId = dayShifts[i].id
                               /\ conflicts[c].type = "understaffed"}
           IN  Cardinality(reported)
                   = (IF Len(dayShifts[i].assignedNurses)
                             < dayShifts[i].requiredStaff
                      THEN 1 ELSE 0)
    /\ \A c \in DOMAIN conflicts :
           \E i \in DOMAIN dayShifts : dayShifts[i].id = conflicts[c].shiftId

\* Nurses have been moved: one shift has as many nurses as it requires and
\* is not reported, another has too few and is reported.
C23_Witness ==
    /\ shifts # EditorShifts
    /\ \E i \in DOMAIN dayShifts :
           /\ Len(dayShifts[i].assignedNurses) = dayShifts[i].requiredStaff
           /\ ~\E c \in DOMAIN conflicts :
                  conflicts[c].shiftId = dayShifts[i].id
    /\ \E i \in DOMAIN dayShifts :
           /\ isUnderstaffed(dayShifts[i])
           /\ \E c \in DOMAIN conflicts :
                  conflicts[c].shiftId = dayShifts[i].id

\* This step ends a run of handleDragEnd that moved a nurse from one shift
\* to another shift
ShiftToShiftDropDone(k) ==
    /\ k \in DOMAIN pending
    /\ pending[k].op = "updateShift"
    /\ Len(pending') = Len(pending) - 1
    /\ pending[k].drop.sourceShiftId # "available"
    /\ pending[k].drop.destShiftId # "available"

\* C26: when handleDragEnd has finished moving a nurse from one shift to
\* another, with or without a failed updateShift, the nurse is assigned to
\* the source shift or to the destination shift.
C26_MoveKeepsTheAssignment ==
    [][\A k \in DOMAIN pending :
           ShiftToShiftDropDone(k) =>
               \E i \in DOMAIN shifts' :
                   /\ shifts'[i].id \in {pending[k].drop.sourceShiftId,
                                         pending[k].drop.destShiftId}
                   /\ includes(shifts'[i].assignedNurses,
                               pending[k].drop.nurseId)]_vars

----------------------------------------------------------------------------
(* Nurse store specification: the workflow next to a NurseList that        *)
(* fetches the nurses                                                      *)

\* mockNurses of the nurse store: its nurses before the first answer of
\* GET /nurses and after a failed one
mockNurses ==
    <<[id |-> "1", department |-> "ICU",
       specializations |-> <<"Critical Care", "Emergency">>,
       experienceLevel |-> "Senior", preferredShifts |-> <<"Day", "Evening">>],
      [id |-> "2", department |-> "Emergency",
       specializations |-> <<"Emergency", "Trauma">>,
       experienceLevel |-> "Expert", preferredShifts |-> <<"Night">>],
      [id |-> "3", department |-> "Pediatrics",
       specializations |-> <<"Pediatric Care", "Neonatal">>,
       experienceLevel |-> "Mid", preferredShifts |-> <<"Day">>],
      [id |-> "4", department |-> "Surgery",
       specializations |-> <<"Surgical Care", "Anesthesia">>,
       experienceLevel |-> "Senior", preferredShifts |-> <<"Day", "Evening">>],
      [id |-> "5", department |-> "ICU",
       specializations |-> <<"Critical Care">>,
       experienceLevel |-> "Junior",
       preferredShifts |-> <<"Evening", "Night">>]>>

InitNurses ==
    /\ nurses = mockNurses
    /\ shifts = <<>>
    /\ nurseId = "1"
    /\ shiftId = "s1"
    /\ suggestions = <<>>
    /\ IdleStore
    /\ FreshForm
    /\ scored = NotScored
    /\ selectedRequest = Null
    /\ conflicts = <<>>
    /\ nursesLoading = NotLoading

\* What fetchNurses leaves alone
UNCHANGEDbyFetchNurses ==
    UNCHANGED <<shifts, swapRequests, loadingState, nurseId, shiftId,
                selectedSuggestion, form, errors, closed, targetChosenBy,
                notifications, selectedRequest, conflicts, scored>>

\* The effect of NurseList after it is mounted: fetchNurses up to the await
\* of the API's answer
FetchNursesStart ==
    /\ Cardinality(inFlight("fetchNurses")) < MaxPending
    /\ nursesLoading' = [isLoading |-> TRUE, error |-> NullStr]
    /\ pending' = Append(pending,
                          [op |-> "fetchNurses", request |-> Undefined,
                           config |-> firstAttempt])
    /\ UNCHANGED <<nurses, suggestions>>
    /\ UNCHANGEDbyFetchNurses

\* fetchNurses after the await, the API having answered: the try block,
\* then the finally block; the effect of the form runs for the new nurses
FetchNursesSucceed ==
    /\ \E k \in inFlight("fetchNurses") : pending' = RemoveAt(pending, k)
    /\ nurses' = WardNurses
    /\ nursesLoading' = NotLoading
    /\ suggestions' = IF closed THEN suggestions
                      ELSE useEffectSuggestions(WardNurses, shifts, nurseId,
                                                shiftId, suggestions)
    /\ UNCHANGEDbyFetchNurses

\* loadingState after the catch block of fetchNurses
fetchNursesCatch(error) ==
    [isLoading |-> FALSE, error |-> handleError(error).message]

\* loadingState after the finally block of fetchNurses
fetchNursesFinally(afterCatch) == [isLoading |-> FALSE, error |-> NullStr]

\* The request of fetchNurses fails: the interceptor retries or rejects; on
\* a rejection the catch block falls back to mockNurses, then the finally
\* block runs
FetchNursesFail ==
    /\ \E k \in inFlight("fetchNurses"), error \in AxiosErrors :
          IF shouldRetry(pending[k].config, error)
          THEN /\ pending' = [pending EXCEPT ![k].config = retried(@)]
               /\ UNCHANGED <<nurses, nursesLoading, suggestions>>
          ELSE /\ pending' = RemoveAt(pending, k)
               /\ nurses' = mockNurses
               /\ nursesLoading' = fetchNursesFinally(fetchNursesCatch(error))
               /\ suggestions' =
                      IF closed THEN suggestions
                      ELSE useEffectSuggestions(mockNurses, shifts, nurseId,
                                                shiftId, suggestions)
    /\ UNCHANGEDbyFetchNurses

NextNurses ==
    \/ Next
    \/ FetchNursesStart
    \/ FetchNursesSucceed
    \/ FetchNursesFail

SpecNurses == InitNurses /\ [][NextNurses]_vars

\* This step is the end of a failed fetchNurses: a call leaves the calls in
\* flight and the store falls back to mockNurses
FetchNursesFailed ==
    /\ inFlight("fetchNurses") # {}
    /\ Len(pending') = Len(pending) - 1
    /\ \A k \in DOMAIN pending' : pending'[k].op # "fetchNurses"
    /\ nurses' = mockNurses

\* C30: when fetchNurses has failed and returned, loadingState of the nurse
\* store is not loading and holds the failure message.
C30_FetchNursesFailureIsObservable ==
    [][FetchNursesFailed =>
           /\ ~nursesLoading'.isLoading
           /\ nursesLoading'.error # NullStr]_vars
====
